---- MODULE Spec2Model ----
(***************************************************************************)
(* Brokerage backend: order execution (services/trading.py), cash          *)
(* transfers (routers/auth.py), price ticks (services/market.py) and the   *)
(* price-alert evaluation pass (services/price_alerts.py).                 *)
(*                                                                         *)
(* Every HTTP request runs in its own ORM session.  A session reads rows   *)
(* into private copies, changes the copies, and its commit writes the      *)
(* changed columns back as absolute values in one transaction; a commit    *)
(* expires the copies, so the next attribute access reads the row again.   *)
(* Each read and each commit of a handler is one step of the model, so     *)
(* requests of different sessions interleave between them.                 *)
(*                                                                         *)
(* Money is counted in cents (178.50 is 17850).  An average cost is an     *)
(* exact fraction <<numerator, denominator>> of cents.  A timestamp is a   *)
(* tick of a logical clock; 0 stands for NULL, as does a price of 0 for a  *)
(* missing limit or fill price.                                            *)
(***************************************************************************)
EXTENDS Integers, Sequences, FiniteSets, TLC

VARIABLES
    balance,      \* users.balance, per user id
    holdings,     \* rows of portfolio_holdings
    orders,       \* rows of orders; the index is the id (orders are never deleted)
    alerts,       \* rows of price_alerts
    price,        \* stocks.current_price, per symbol
    pc,           \* per request slot: the handler's position
    ses,          \* per request slot: the request and its session's private copies
    res,          \* per request slot: what the finished request returned
    pre,          \* per request slot: the committed ledger when the request began,
                  \* the symbol, order type, quantity and limit price requested
                  \* and the current price place_order read
    ledger,       \* history: per user, start balance +/- every committed transfer and fill
    position,     \* history: per user and symbol, filled buys minus filled sells
    reported,     \* history: per alert id, in how many returned lists the alert appeared
    clock,        \* the wall clock read by datetime.utcnow()
    ops,          \* orders, transfers, price ticks, alert reads and deletions
                  \* requested so far
    created       \* alerts created so far

vars == <<balance, holdings, orders, alerts, price, pc, ses, res, pre,
          ledger, position, reported, clock, ops, created>>

dbVars == <<balance, holdings, orders, alerts, price>>
histVars == <<ledger, position, reported>>
countVars == <<ops, created>>

----------------------------------------------------------------------------
(* Bounds of the model *)

MaxOps == 2
MaxAlerts == 2

(* Program constants *)

INITIAL_BALANCE == 1000000
AAPL_PRICE == 17850
MSFT_PRICE == 37890

Procs == {1, 2}
Users == {1, 2}
Symbols == {"AAPL", "MSFT"}
AnySymbol == Symbols \cup {"ZZZZ"}
Quantities == {10, 30}
LimitPrices == {18200}
Amounts == {500000}
Targets == {17850}
PriceGrid == [AAPL |-> {17500, 17850, 18200}, MSFT |-> {37890, 38500}]

----------------------------------------------------------------------------
(* Helpers *)

RECURSIVE GCD(_, _)
GCD(a, b) == IF b = 0 THEN a ELSE GCD(b, a % b)

Frac(n, d) == LET g == GCD(n, d) IN <<n \div g, d \div g>>

MaxOf(S) == IF S = {} THEN 0 ELSE CHOOSE x \in S : \A y \in S : y <= x

\* The database gives a new row the largest id in use plus one.
NewId(rows) == MaxOf({r.id : r \in rows}) + 1

NoHold == [id |-> 0, user_id |-> 0, symbol |-> "", quantity |-> 0, avg |-> <<0, 1>>]

NoSes == [op |-> "none", user_id |-> 0, oid |-> 0, symbol |-> "", side |-> "",
          quantity |-> 0, price |-> 0, bal |-> 0, hold |-> NoHold, amount |-> 0,
          found |-> <<>>, idx |-> 0, trig |-> <<>>,
          seen |-> [s \in Symbols |-> 0]]

NoRes == [op |-> "none", user_id |-> 0, code |-> 0, oid |-> 0, ids |-> <<>>]

NoPre == [balance |-> <<>>, holdings |-> {}, alerts |-> {}, orders |-> <<>>,
         symbol |-> "", order_type |-> "", quantity |-> 0, limit_price |-> 0,
         price |-> 0]

Snapshot == [balance |-> balance, holdings |-> holdings, alerts |-> alerts,
             orders |-> orders, symbol |-> "", order_type |-> "", quantity |-> 0,
             limit_price |-> 0, price |-> 0]

Finish(p, r) ==
    /\ pc' = [pc EXCEPT ![p] = "done"]
    /\ res' = [res EXCEPT ![p] = r]

\* trading.py:21-26, price_alerts.py:60-66  get_stock finds no row: the
\* handler raises before it has added or changed anything.
NotFoundAsInvalid(p, op, u) ==
    /\ Finish(p, [NoRes EXCEPT !.op = op, !.user_id = u, !.code = 400])
    /\ UNCHANGED <<orders, alerts, reported, ses>>
NotFound(p, op, u) ==
    /\ Finish(p, [NoRes EXCEPT !.op = op, !.user_id = u, !.code = 404])
    /\ UNCHANGED <<orders, alerts, reported, ses>>

----------------------------------------------------------------------------
(* services/trading.py *)

\* trading.py:82  user.balance < total_cost
InsufficientFundsInverted(bal, cost) == bal > cost
InsufficientFunds(bal, cost) == bal < cost

\* trading.py:121  not holding or holding.quantity < order.quantity
InsufficientSharesInverted(h, q) == h = NoHold \/ h.quantity > q
InsufficientShares(h, q) == h = NoHold \/ h.quantity < q

\* trading.py:63-68  the limit is reachable at the current price
CanExecuteSwapped(side, lp, current) ==
    \/ side = "buy" /\ lp <= current
    \/ side = "sell" /\ lp >= current
CanExecuteAlways(side, lp, current) == side \in {"buy", "sell"}
CanExecute(side, lp, current) ==
    \/ side = "buy" /\ lp >= current
    \/ side = "sell" /\ lp <= current

\* trading.py:101-104  weighted average cost and quantity after a buy
BoughtIntoUnweighted(h, q, p) ==
    [h EXCEPT !.quantity = h.quantity + q,
              !.avg = Frac(h.avg[1] + p * h.avg[2], 2 * h.avg[2])]
BoughtInto(h, q, p) ==
    [h EXCEPT !.quantity = h.quantity + q,
              !.avg = Frac(h.quantity * h.avg[1] + q * p * h.avg[2],
                           h.avg[2] * (h.quantity + q))]

\* trading.py:106-111  the holding a first buy creates
FirstHolding(u, s, q, p) ==
    [id |-> NewId(holdings), user_id |-> u, symbol |-> s, quantity |-> q,
     avg |-> <<p, 1>>]

\* trading.py:78  total_cost = price * order.quantity
TotalCostFlat(p, q) == p
TotalCost(p, q) == p * q

\* trading.py:94-97, 116-119  query(PortfolioHolding).filter(user, symbol)
HoldingsOf(u, s) == {h \in holdings : h.user_id = u /\ h.symbol = s}

\* schemas/order.py:27-32  validate_quantity
ValidQuantityOrZero(q) == q >= 0
ValidQuantity(q) == q > 0

\* The request body is validated (schemas/order.py:6-32); then place_order:
\* its checks, the pending order and its commit (trading.py:16-54), and the
\* return of a limit order that cannot execute (trading.py:60-73).
PlaceOrder(p, u, s, ot, side, q, lp) ==
    /\ pc[p] = "idle"
    /\ ops < MaxOps
    /\ ops' = ops + 1
    /\ pre' = [pre EXCEPT ![p] =
                 [Snapshot EXCEPT !.symbol = s, !.order_type = ot, !.quantity = q,
                                  !.limit_price = lp,
                                  !.price = IF s \in Symbols THEN price[s] ELSE 0]]
    /\ UNCHANGED <<balance, holdings, alerts, price, histVars, clock, created>>
    /\ IF ~ValidQuantity(q)
       THEN /\ Finish(p, [NoRes EXCEPT !.op = "validate", !.user_id = u, !.code = 422])
            /\ UNCHANGED <<orders, ses>>
       ELSE IF s \notin Symbols
       THEN NotFound(p, "place", u)
       ELSE IF ot = "limit" /\ lp = 0
       THEN /\ Finish(p, [NoRes EXCEPT !.op = "place", !.user_id = u, !.code = 400])
            /\ UNCHANGED <<orders, ses>>
       ELSE /\ orders' = Append(orders,
                   [user_id |-> u, symbol |-> s, order_type |-> ot, side |-> side,
                    quantity |-> q, limit_price |-> lp, filled_quantity |-> 0,
                    filled_price |-> 0, status |-> "pending"])
            /\ IF ot = "limit" /\ ~CanExecute(side, lp, price[s])
               THEN /\ Finish(p, [NoRes EXCEPT !.op = "place", !.user_id = u, !.code = 201,
                                               !.oid = Len(orders) + 1])
                    /\ UNCHANGED ses
               ELSE /\ pc' = [pc EXCEPT ![p] = "execute"]
                    /\ ses' = [ses EXCEPT ![p] =
                          [NoSes EXCEPT !.op = "place", !.user_id = u,
                                        !.oid = Len(orders) + 1, !.symbol = s,
                                        !.side = side, !.quantity = q,
                                        !.price = price[s]]]
                    /\ UNCHANGED res

\* The rejection of an order: status and commit (trading.py:83-88, 122-128).
RejectLeftPending(p) ==
    /\ Finish(p, [NoRes EXCEPT !.op = "place", !.user_id = ses[p].user_id, !.code = 400, !.oid = ses[p].oid])
    /\ ses' = [ses EXCEPT ![p] = NoSes]
    /\ UNCHANGED <<balance, holdings, orders>>
RejectAfterDebit(p) ==
    /\ orders' = [orders EXCEPT ![ses[p].oid].status = "rejected"]
    /\ Finish(p, [NoRes EXCEPT !.op = "place", !.user_id = ses[p].user_id, !.code = 400, !.oid = ses[p].oid])
    /\ ses' = [ses EXCEPT ![p] = NoSes]
    /\ balance' = [balance EXCEPT ![ses[p].user_id] =
                      @ - ses[p].price * ses[p].quantity]
    /\ UNCHANGED holdings
Reject(p) ==
    /\ orders' = [orders EXCEPT ![ses[p].oid].status = "rejected"]
    /\ Finish(p, [NoRes EXCEPT !.op = "place", !.user_id = ses[p].user_id, !.code = 400, !.oid = ses[p].oid])
    /\ ses' = [ses EXCEPT ![p] = NoSes]
    /\ UNCHANGED <<balance, holdings>>

\* _execute_order, buy: the balance is read and checked (trading.py:80-91).
ExecuteBuyFunds(p) ==
    /\ pc[p] = "execute"
    /\ ses[p].side = "buy"
    /\ LET cost == TotalCost(ses[p].price, ses[p].quantity) IN
       IF InsufficientFunds(balance[ses[p].user_id], cost)
       THEN Reject(p)
       ELSE /\ ses' = [ses EXCEPT ![p].bal = balance[ses[p].user_id] - cost]
            /\ pc' = [pc EXCEPT ![p] = "buy_holding"]
            /\ UNCHANGED <<balance, holdings, orders, res>>
    /\ UNCHANGED <<alerts, price, pre, histVars, clock, countVars>>

\* _execute_order, buy: the holding is read and changed or made (trading.py:93-112).
ExecuteBuyHolding(p) ==
    /\ pc[p] = "buy_holding"
    /\ LET u == ses[p].user_id
           s == ses[p].symbol
       IN \/ /\ HoldingsOf(u, s) = {}
             /\ ses' = [ses EXCEPT ![p].hold = NoHold]
          \/ \E h \in HoldingsOf(u, s) :
                ses' = [ses EXCEPT ![p].hold =
                           BoughtInto(h, ses[p].quantity, ses[p].price)]
    /\ pc' = [pc EXCEPT ![p] = "commit"]
    /\ UNCHANGED <<dbVars, res, pre, histVars, clock, countVars>>

\* _execute_order, sell: the holding is read and checked (trading.py:114-128).
ExecuteSellHolding(p) ==
    /\ pc[p] = "execute"
    /\ ses[p].side = "sell"
    /\ LET u == ses[p].user_id
           s == ses[p].symbol
           q == ses[p].quantity
       IN \/ /\ HoldingsOf(u, s) = {}
             /\ IF InsufficientShares(NoHold, q)
                THEN Reject(p)
                ELSE /\ ses' = [ses EXCEPT ![p].hold = NoHold]
                     /\ pc' = [pc EXCEPT ![p] = "sell_funds"]
                     /\ UNCHANGED <<balance, holdings, orders, res>>
          \/ \E h \in HoldingsOf(u, s) :
                IF InsufficientShares(h, q)
                THEN Reject(p)
                ELSE /\ ses' = [ses EXCEPT ![p].hold = h]
                     /\ pc' = [pc EXCEPT ![p] = "sell_funds"]
                     /\ UNCHANGED <<balance, holdings, orders, res>>
    /\ UNCHANGED <<alerts, price, pre, histVars, clock, countVars>>

\* _execute_order, sell: the balance is read and credited, the holding
\* decremented (trading.py:130-136).
ExecuteSellFundsAtCost(p) ==
    /\ pc[p] = "sell_funds"
    /\ ses' = [ses EXCEPT
                 ![p].bal = balance[ses[p].user_id]
                            + (ses[p].hold.avg[1] * ses[p].quantity)
                                 \div ses[p].hold.avg[2],
                 ![p].hold = [ses[p].hold EXCEPT
                                !.quantity = ses[p].hold.quantity - ses[p].quantity]]
    /\ pc' = [pc EXCEPT ![p] = "commit"]
    /\ UNCHANGED <<dbVars, res, pre, histVars, clock, countVars>>
ExecuteSellFunds(p) ==
    /\ pc[p] = "sell_funds"
    /\ ses' = [ses EXCEPT
                 ![p].bal = balance[ses[p].user_id]
                            + TotalCost(ses[p].price, ses[p].quantity),
                 ![p].hold = [ses[p].hold EXCEPT
                                !.quantity = ses[p].hold.quantity - ses[p].quantity]]
    /\ pc' = [pc EXCEPT ![p] = "commit"]
    /\ UNCHANGED <<dbVars, res, pre, histVars, clock, countVars>>

\* The holdings table after the session's flush: an INSERT of a new row, a
\* DELETE of a row sold to zero, an UPDATE of the row's changed columns.
FlushedHoldingsKeepZero(p) ==
    LET h == ses[p].hold IN
    IF h = NoHold
    THEN holdings \cup {FirstHolding(ses[p].user_id, ses[p].symbol,
                                     ses[p].quantity, ses[p].price)}
    ELSE {IF r.id = h.id THEN [r EXCEPT !.quantity = h.quantity, !.avg = h.avg]
          ELSE r : r \in holdings}
FlushedHoldings(p) ==
    LET h == ses[p].hold IN
    IF h = NoHold
    THEN holdings \cup {FirstHolding(ses[p].user_id, ses[p].symbol,
                                     ses[p].quantity, ses[p].price)}
    ELSE IF ses[p].side = "sell" /\ h.quantity = 0
    THEN {r \in holdings : r.id # h.id}
    ELSE {IF r.id = h.id THEN [r EXCEPT !.quantity = h.quantity, !.avg = h.avg]
          ELSE r : r \in holdings}

\* An UPDATE that matches no row fails the flush, and the transaction with it.
StaleHolding(p) ==
    /\ ses[p].hold # NoHold
    /\ ~(ses[p].side = "sell" /\ ses[p].hold.quantity = 0)
    /\ \A r \in holdings : r.id # ses[p].hold.id

\* trading.py:138-141  the order's fill
FilledPartly(o, p) ==
    [o EXCEPT !.filled_quantity = o.quantity, !.filled_price = p]
FilledOver(o, p) ==
    [o EXCEPT !.filled_quantity = o.quantity + o.quantity, !.filled_price = p,
              !.status = "filled"]
Filled(o, p) ==
    [o EXCEPT !.filled_quantity = o.quantity, !.filled_price = p,
              !.status = "filled"]

\* _execute_order: the fill and the commit of balance, holding and order
\* (trading.py:138-146).
ExecuteCommit(p) ==
    /\ pc[p] = "commit"
    /\ LET u == ses[p].user_id
           s == ses[p].symbol
           q == ses[p].quantity
           signed == IF ses[p].side = "buy" THEN q ELSE 0 - q
       IN IF StaleHolding(p)
          THEN /\ Finish(p, [NoRes EXCEPT !.op = "place", !.user_id = ses[p].user_id, !.code = 500,
                                          !.oid = ses[p].oid])
               /\ UNCHANGED <<balance, holdings, orders, ledger, position>>
          ELSE /\ balance' = [balance EXCEPT ![u] = ses[p].bal]
               /\ holdings' = FlushedHoldings(p)
               /\ orders' = [orders EXCEPT ![ses[p].oid] = Filled(@, ses[p].price)]
               /\ ledger' = [ledger EXCEPT ![u] =
                               @ - signed * ses[p].price]
               /\ position' = [position EXCEPT ![u][s] = @ + signed]
               /\ Finish(p, [NoRes EXCEPT !.op = "place", !.user_id = ses[p].user_id, !.code = 201,
                                          !.oid = ses[p].oid])
    /\ ses' = [ses EXCEPT ![p] = NoSes]
    /\ UNCHANGED <<alerts, price, pre, reported, clock, countVars>>


\* trading.py:162  only a pending order can be cancelled
CancellableAny(o) == o.status \in {"pending", "filled", "rejected", "cancelled"}
Cancellable(o) == o.status = "pending"

\* cancel_order: the order is looked up and checked (trading.py:149-166).
CancelOrder(p, u, oid) ==
    /\ pc[p] = "idle"
    /\ pre' = [pre EXCEPT ![p] = Snapshot]
    /\ IF oid \notin DOMAIN orders \/ orders[oid].user_id # u
       THEN /\ Finish(p, [NoRes EXCEPT !.op = "cancel", !.user_id = u, !.code = 404, !.oid = oid])
            /\ UNCHANGED ses
       ELSE IF ~Cancellable(orders[oid])
       THEN /\ Finish(p, [NoRes EXCEPT !.op = "cancel", !.user_id = u, !.code = 400, !.oid = oid])
            /\ UNCHANGED ses
       ELSE /\ pc' = [pc EXCEPT ![p] = "cancel"]
            /\ ses' = [ses EXCEPT ![p] =
                  [NoSes EXCEPT !.op = "cancel", !.user_id = u, !.oid = oid]]
            /\ UNCHANGED res
    /\ UNCHANGED <<dbVars, histVars, clock, countVars>>

\* cancel_order: the status is set and committed (trading.py:168-172).
CancelCommitRefund(p) ==
    /\ pc[p] = "cancel"
    /\ orders' = [orders EXCEPT ![ses[p].oid].status = "cancelled"]
    /\ balance' = [balance EXCEPT ![ses[p].user_id] =
                      @ + orders[ses[p].oid].limit_price * orders[ses[p].oid].quantity]
    /\ Finish(p, [NoRes EXCEPT !.op = "cancel", !.user_id = ses[p].user_id, !.code = 200, !.oid = ses[p].oid])
    /\ ses' = [ses EXCEPT ![p] = NoSes]
    /\ UNCHANGED <<holdings, alerts, price, pre, histVars, clock, countVars>>
CancelCommit(p) ==
    /\ pc[p] = "cancel"
    /\ orders' = [orders EXCEPT ![ses[p].oid].status = "cancelled"]
    /\ Finish(p, [NoRes EXCEPT !.op = "cancel", !.user_id = ses[p].user_id, !.code = 200, !.oid = ses[p].oid])
    /\ ses' = [ses EXCEPT ![p] = NoSes]
    /\ UNCHANGED <<balance, holdings, alerts, price, pre, histVars, clock, countVars>>

----------------------------------------------------------------------------
(* routers/auth.py *)

\* auth.py:90  amount > current_user.balance
WithdrawDeniedInverted(amount, bal) == amount < bal
WithdrawDenied(amount, bal) == amount > bal

\* deposit_funds and withdraw_funds: the user row is read for the request,
\* the amount is checked and the copy changed (auth.py:59-72, 77-96).
Transfer(p, u, kind, amount) ==
    /\ pc[p] = "idle"
    /\ ops < MaxOps
    /\ ops' = ops + 1
    /\ pre' = [pre EXCEPT ![p] = Snapshot]
    /\ IF amount <= 0 \/ (kind = "withdraw" /\ WithdrawDenied(amount, balance[u]))
       THEN /\ Finish(p, [NoRes EXCEPT !.op = kind, !.user_id = u, !.code = 400])
            /\ UNCHANGED ses
       ELSE /\ pc' = [pc EXCEPT ![p] = "transfer"]
            /\ ses' = [ses EXCEPT ![p] =
                  [NoSes EXCEPT !.op = kind, !.user_id = u, !.amount = amount,
                                !.bal = IF kind = "deposit"
                                        THEN balance[u] + amount
                                        ELSE balance[u] - amount]]
            /\ UNCHANGED res
    /\ UNCHANGED <<dbVars, histVars, clock, created>>

\* deposit_funds and withdraw_funds: the commit (auth.py:73, 97).
TransferCommit(p) ==
    /\ pc[p] = "transfer"
    /\ balance' = [balance EXCEPT ![ses[p].user_id] = ses[p].bal]
    /\ ledger' = [ledger EXCEPT ![ses[p].user_id] =
                    IF ses[p].op = "deposit" THEN @ + ses[p].amount
                    ELSE @ - ses[p].amount]
    /\ Finish(p, [NoRes EXCEPT !.op = ses[p].op, !.user_id = ses[p].user_id, !.code = 200])
    /\ ses' = [ses EXCEPT ![p] = NoSes]
    /\ UNCHANGED <<holdings, orders, alerts, price, pre, position, reported, clock,
                   countVars>>

----------------------------------------------------------------------------
(* services/market.py *)

\* simulate_price_change: a new price within 2% of the current one
\* (market.py:68-84); the random draw is taken from the symbol's price grid.
WithinTwoPercent(old, new) == 98 * old <= 100 * new /\ 100 * new <= 102 * old

TickAndMatch(s) ==
    /\ ops < MaxOps
    /\ ops' = ops + 1
    /\ \E np \in PriceGrid[s] :
          /\ np # price[s]
          /\ WithinTwoPercent(price[s], np)
          /\ price' = [price EXCEPT ![s] = np]
          /\ orders' = [i \in DOMAIN orders |->
                IF /\ orders[i].status = "pending"
                   /\ orders[i].symbol = s
                   /\ orders[i].order_type = "limit"
                   /\ \/ orders[i].side = "buy" /\ orders[i].limit_price >= np
                      \/ orders[i].side = "sell" /\ orders[i].limit_price <= np
                THEN [orders[i] EXCEPT !.status = "filled",
                                       !.filled_quantity = orders[i].quantity,
                                       !.filled_price = np]
                ELSE orders[i]]
    /\ UNCHANGED <<balance, holdings, alerts, pc, ses, res, pre, histVars,
                   clock, created>>
Tick(s) ==
    /\ ops < MaxOps
    /\ ops' = ops + 1
    /\ \E np \in PriceGrid[s] :
          /\ np # price[s]
          /\ WithinTwoPercent(price[s], np)
          /\ price' = [price EXCEPT ![s] = np]
    /\ UNCHANGED <<balance, holdings, orders, alerts, pc, ses, res, pre, histVars,
                   clock, created>>

----------------------------------------------------------------------------
(* services/price_alerts.py *)

\* price_alerts.py:188-191  the trigger rule
ShouldTriggerStrict(cond, current, target) ==
    \/ cond = "above" /\ current > target
    \/ cond = "below" /\ current < target
ShouldTrigger(cond, current, target) ==
    \/ cond = "above" /\ current >= target
    \/ cond = "below" /\ current <= target

\* price_alerts.py:172-176  the user's active alerts that are not triggered
SelectedOfAnyone(u) == {a \in alerts : a.is_active /\ ~a.is_triggered}
SelectedAll(u) == {a \in alerts : a.user_id = u /\ a.is_active}
Selected(u) == {a \in alerts : a.user_id = u /\ a.is_active /\ ~a.is_triggered}

\* The rows of a query in the order of their ids.
RECURSIVE ById(_)
ById(rows) ==
    IF rows = {} THEN <<>>
    ELSE LET r == CHOOSE x \in rows : \A y \in rows : x.id <= y.id
         IN <<r>> \o ById(rows \ {r})

\* create_alert (price_alerts.py:42-79)
CreateAlert(p, u, s, target, cond) ==
    /\ pc[p] = "idle"
    /\ created < MaxAlerts
    /\ created' = created + 1
    /\ pre' = [pre EXCEPT ![p] = [Snapshot EXCEPT !.symbol = s]]
    /\ IF s \notin Symbols
       THEN NotFound(p, "create", u)
       ELSE /\ alerts' = alerts \cup
                  {[id |-> NewId(alerts), user_id |-> u, symbol |-> s,
                    target_price |-> target, condition |-> cond,
                    is_triggered |-> FALSE, is_active |-> TRUE, triggered_at |-> 0]}
            /\ reported' = [reported EXCEPT ![NewId(alerts)] = 0]
            /\ Finish(p, [NoRes EXCEPT !.op = "create", !.user_id = u, !.code = 201,
                                       !.oid = NewId(alerts)])
    /\ UNCHANGED <<balance, holdings, orders, price, ses, ledger, position, clock, ops>>

\* get_alert (price_alerts.py:120-131): the row with this id that the user owns
OwnAlertsOfAnyone(u, aid) == {a \in alerts : a.id = aid}
OwnAlerts(u, aid) == {a \in alerts : a.id = aid /\ a.user_id = u}

\* get_alert: the alert is looked up and returned (price_alerts.py:105-131).
GetAlert(p, u, aid) ==
    /\ pc[p] = "idle"
    /\ ops < MaxOps
    /\ ops' = ops + 1
    /\ pre' = [pre EXCEPT ![p] = Snapshot]
    /\ Finish(p, [NoRes EXCEPT !.op = "get", !.user_id = u, !.oid = aid,
                               !.code = IF OwnAlerts(u, aid) = {} THEN 404 ELSE 200])
    /\ UNCHANGED <<dbVars, ses, histVars, clock, created>>

\* delete_alert: the alert is looked up (price_alerts.py:146, 120-129).
DeleteAlert(p, u, aid) ==
    /\ pc[p] = "idle"
    /\ ops < MaxOps
    /\ ops' = ops + 1
    /\ pre' = [pre EXCEPT ![p] = Snapshot]
    /\ IF OwnAlerts(u, aid) = {}
       THEN /\ Finish(p, [NoRes EXCEPT !.op = "delete", !.user_id = u, !.code = 404, !.oid = aid])
            /\ UNCHANGED ses
       ELSE /\ pc' = [pc EXCEPT ![p] = "delete"]
            /\ ses' = [ses EXCEPT ![p] =
                  [NoSes EXCEPT !.op = "delete", !.user_id = u, !.oid = aid]]
            /\ UNCHANGED res
    /\ UNCHANGED <<dbVars, histVars, clock, created>>

\* delete_alert: the row is deleted and the deletion committed
\* (price_alerts.py:147-148).
DeleteCommit(p) ==
    /\ pc[p] = "delete"
    /\ alerts' = {a \in alerts : a.id # ses[p].oid}
    /\ Finish(p, [NoRes EXCEPT !.op = "delete", !.user_id = ses[p].user_id, !.code = 204, !.oid = ses[p].oid])
    /\ ses' = [ses EXCEPT ![p] = NoSes]
    /\ UNCHANGED <<balance, holdings, orders, price, pre, histVars, clock, countVars>>

\* check_and_trigger_alerts: the query of the alerts to evaluate
\* (price_alerts.py:171-178); with none, the empty list is returned
\* (price_alerts.py:198-201).
CheckAlerts(p, u) ==
    /\ pc[p] = "idle"
    /\ pre' = [pre EXCEPT ![p] = Snapshot]
    /\ IF Selected(u) = {}
       THEN /\ Finish(p, [NoRes EXCEPT !.op = "check", !.user_id = u, !.code = 200])
            /\ UNCHANGED ses
       ELSE /\ pc' = [pc EXCEPT ![p] = "scan"]
            /\ ses' = [ses EXCEPT ![p] =
                  [NoSes EXCEPT !.op = "check", !.user_id = u,
                                !.found = ById(Selected(u)), !.idx = 1]]
            /\ UNCHANGED res
    /\ UNCHANGED <<dbVars, histVars, clock, countVars>>

\* check_and_trigger_alerts: one turn of the loop (price_alerts.py:180-196).
\* The session reads a stock's row the first time it meets the symbol.
ScanAlertCommitEach(p) ==
    /\ pc[p] = "scan"
    /\ ses[p].idx <= Len(ses[p].found)
    /\ LET a == ses[p].found[ses[p].idx]
           current == IF ses[p].seen[a.symbol] = 0 THEN price[a.symbol]
                      ELSE ses[p].seen[a.symbol]
       IN IF (a.condition = "above" /\ current >= a.target_price)
             \/ (a.condition = "below" /\ current <= a.target_price)
          THEN /\ ses' = [ses EXCEPT ![p].idx = @ + 1,
                                     ![p].seen[a.symbol] = current,
                                     ![p].trig = Append(@, [id |-> a.id, at |-> clock])]
               /\ alerts' = {IF b.id = a.id
                             THEN [b EXCEPT !.is_triggered = TRUE, !.triggered_at = clock]
                             ELSE b : b \in alerts}
               /\ clock' = clock + 1
          ELSE /\ ses' = [ses EXCEPT ![p].idx = @ + 1,
                                     ![p].seen[a.symbol] = current]
               /\ UNCHANGED <<alerts, clock>>
    /\ UNCHANGED <<balance, holdings, orders, price, pc, res, pre, histVars, countVars>>
ScanAlert(p) ==
    /\ pc[p] = "scan"
    /\ ses[p].idx <= Len(ses[p].found)
    /\ LET a == ses[p].found[ses[p].idx]
           current == IF ses[p].seen[a.symbol] = 0 THEN price[a.symbol]
                      ELSE ses[p].seen[a.symbol]
       IN IF ShouldTrigger(a.condition, current, a.target_price)
          THEN /\ ses' = [ses EXCEPT ![p].idx = @ + 1,
                                     ![p].seen[a.symbol] = current,
                                     ![p].trig = Append(@, [id |-> a.id, at |-> clock])]
               /\ clock' = clock + 1
          ELSE /\ ses' = [ses EXCEPT ![p].idx = @ + 1,
                                     ![p].seen[a.symbol] = current]
               /\ UNCHANGED clock
    /\ UNCHANGED <<dbVars, pc, res, pre, histVars, countVars>>

\* The ids of a list of triggered alerts.
IdsExceptFirst(trig) == [i \in 1..(Len(trig) - 1) |-> trig[i + 1].id]
Ids(trig) == [i \in 1..Len(trig) |-> trig[i].id]

\* price_alerts.py:193-195  the alert's row after the flush of a trigger
TriggeredToggled(a, at) ==
    [a EXCEPT !.is_triggered = ~a.is_triggered, !.triggered_at = at]
TriggeredFlagOnly(a, at) == [a EXCEPT !.is_triggered = TRUE]
Triggered(a, at) == [a EXCEPT !.is_triggered = TRUE, !.triggered_at = at]

\* check_and_trigger_alerts: the commit of the triggered alerts and the
\* returned list (price_alerts.py:198-201).  An UPDATE that matches no row
\* fails the flush, and the transaction with it.
FinishCheck(p) ==
    /\ pc[p] = "scan"
    /\ ses[p].idx > Len(ses[p].found)
    /\ LET trig == ses[p].trig
           ids == {trig[i].id : i \in 1..Len(trig)}
           at(id) == (CHOOSE i \in 1..Len(trig) : trig[i].id = id)
       IN IF \E id \in ids : \A a \in alerts : a.id # id
          THEN /\ Finish(p, [NoRes EXCEPT !.op = "check", !.user_id = ses[p].user_id, !.code = 500])
               /\ UNCHANGED <<alerts, reported>>
          ELSE /\ alerts' = {IF a.id \in ids THEN Triggered(a, trig[at(a.id)].at)
                             ELSE a : a \in alerts}
               /\ reported' = [i \in DOMAIN reported |->
                                 IF i \in ids THEN reported[i] + 1 ELSE reported[i]]
               /\ Finish(p, [NoRes EXCEPT !.op = "check", !.user_id = ses[p].user_id, !.code = 200,
                                          !.ids = Ids(trig)])
    /\ ses' = [ses EXCEPT ![p] = NoSes]
    /\ UNCHANGED <<balance, holdings, orders, price, pre, ledger, position, clock,
                   countVars>>

----------------------------------------------------------------------------
(* The response is sent and the session closed. *)

Return(p) ==
    /\ pc[p] = "done"
    /\ pc' = [pc EXCEPT ![p] = "idle"]
    /\ res' = [res EXCEPT ![p] = NoRes]
    /\ pre' = [pre EXCEPT ![p] = NoPre]
    /\ UNCHANGED <<dbVars, ses, histVars, clock, countVars>>

----------------------------------------------------------------------------
(* The trading system *)

\* The ledger after construction: every user holds the initial balance
\* (config.py:12), every stock its listed price (market.py:9-25).
Fresh ==
    /\ balance = [u \in Users |-> INITIAL_BALANCE]
    /\ holdings = {}
    /\ orders = <<>>
    /\ position = [u \in Users |-> [s \in Symbols |-> 0]]

\* The ledger after user 1 bought 30 AAPL at 175.00 with a market order and
\* the price ticked back to its listed value.
Seeded ==
    /\ balance = [u \in Users |-> IF u = 1 THEN INITIAL_BALANCE - 30 * 17500
                                   ELSE INITIAL_BALANCE]
    /\ holdings = {[id |-> 1, user_id |-> 1, symbol |-> "AAPL", quantity |-> 30,
                    avg |-> <<17500, 1>>]}
    /\ orders = <<[user_id |-> 1, symbol |-> "AAPL", order_type |-> "market",
                   side |-> "buy", quantity |-> 30, limit_price |-> 0,
                   filled_quantity |-> 30, filled_price |-> 17500,
                   status |-> "filled"]>>
    /\ position = [u \in Users |-> [s \in Symbols |->
                      IF u = 1 /\ s = "AAPL" THEN 30 ELSE 0]]

Rest ==
    /\ ledger = balance
    /\ alerts = {}
    /\ price = [s \in Symbols |-> IF s = "AAPL" THEN AAPL_PRICE ELSE MSFT_PRICE]
    /\ pc = [p \in Procs |-> "idle"]
    /\ ses = [p \in Procs |-> NoSes]
    /\ res = [p \in Procs |-> NoRes]
    /\ pre = [p \in Procs |-> NoPre]
    /\ reported = [a \in 1..MaxAlerts |-> 0]
    /\ clock = 1
    /\ ops = 0
    /\ created = 0

Init == (Fresh \/ Seeded) /\ Rest

TradeStep(p, U) ==
    \/ \E u \in U, s \in AnySymbol, side \in {"buy", "sell"}, q \in Quantities :
          \/ PlaceOrder(p, u, s, "market", side, q, 0)
          \/ \E lp \in LimitPrices \cup {0} : PlaceOrder(p, u, s, "limit", side, q, lp)
    \/ ExecuteBuyFunds(p)
    \/ ExecuteBuyHolding(p)
    \/ ExecuteSellHolding(p)
    \/ ExecuteSellFunds(p)
    \/ ExecuteCommit(p)
    \/ \E u \in U, oid \in 1..(Len(orders) + 1) : CancelOrder(p, u, oid)
    \/ CancelCommit(p)
    \/ \E u \in U, kind \in {"deposit", "withdraw"}, a \in Amounts \cup {0} :
          Transfer(p, u, kind, a)
    \/ TransferCommit(p)
    \/ Return(p)

OthersIdle(p) == \A q \in Procs \ {p} : pc[q] = "idle"
AllIdle == \A q \in Procs : pc[q] = "idle"

\* Requests of one account, each in its own session, interleaved step by step.
TradeNext ==
    \/ \E p \in Procs : TradeStep(p, {1})
    \/ \E s \in Symbols : Tick(s)

\* Requests of every account, one at a time.
TradeSeqNext ==
    \/ \E p \in Procs : OthersIdle(p) /\ TradeStep(p, Users)
    \/ \E s \in Symbols : AllIdle /\ Tick(s)

TradeSpec == Init /\ [][TradeNext]_vars
TradeSeqSpec == Init /\ [][TradeSeqNext]_vars

----------------------------------------------------------------------------
(* The alert system *)

AlertStep(p, U) ==
    \/ \E u \in U, s \in AnySymbol, target \in Targets, cond \in {"above", "below"} :
          CreateAlert(p, u, s, target, cond)
    \/ \E u \in U, aid \in 1..MaxAlerts : GetAlert(p, u, aid)
    \/ \E u \in U, aid \in 1..MaxAlerts : DeleteAlert(p, u, aid)
    \/ DeleteCommit(p)
    \/ \E u \in U : CheckAlerts(p, u)
    \/ ScanAlert(p)
    \/ FinishCheck(p)
    \/ Return(p)

\* Requests of one account, each in its own session, interleaved step by step.
AlertNext ==
    \/ \E p \in Procs : AlertStep(p, {1})
    \/ \E s \in Symbols : Tick(s)

\* Requests of every account, one at a time.
AlertSeqNext ==
    \/ \E p \in Procs : OthersIdle(p) /\ AlertStep(p, Users)
    \/ \E s \in Symbols : AllIdle /\ Tick(s)

AlertInit == Seeded /\ Rest

AlertSpec == AlertInit /\ [][AlertNext]_vars
AlertSeqSpec == AlertInit /\ [][AlertSeqNext]_vars

----------------------------------------------------------------------------
(* The requests that look an instrument up by its symbol *)

PlaceStep(p, U, Q) ==
    \/ \E u \in U, s \in AnySymbol, side \in {"buy", "sell"}, q \in Q :
          \/ PlaceOrder(p, u, s, "market", side, q, 0)
          \/ \E lp \in LimitPrices \cup {0} : PlaceOrder(p, u, s, "limit", side, q, lp)
    \/ ExecuteBuyFunds(p)
    \/ ExecuteBuyHolding(p)
    \/ ExecuteSellHolding(p)
    \/ ExecuteSellFunds(p)
    \/ ExecuteCommit(p)

\* place_order and create_alert requests of one account, one at a time.
LookupNext ==
    \E p \in Procs :
       /\ OthersIdle(p)
       /\ \/ PlaceStep(p, {1}, {0, 10})
          \/ \E u \in {1}, s \in AnySymbol, target \in Targets,
                cond \in {"above", "below"} : CreateAlert(p, u, s, target, cond)
          \/ Return(p)

LookupSpec == AlertInit /\ [][LookupNext]_vars

----------------------------------------------------------------------------
(* Properties *)

Done(p, op) == pc[p] = "done" /\ res[p].op = op

\* The order a finished place_order request created, if it created one.
Placed(p) == Done(p, "place") /\ res[p].oid # 0

Terminal == {"filled", "rejected", "cancelled"}

\* C1: when evaluation passes of one account run concurrently, each in its
\* own session, an alert is in the returned list of at most one of them, and
\* once no pass is in flight a triggered alert has been returned exactly once.
C1_OneTriggerAcrossPasses ==
    \A a \in alerts :
       /\ reported[a.id] <= 1
       /\ (a.is_triggered /\ (\A p \in Procs : pc[p] # "scan"))
             => reported[a.id] = 1

\* C2: with concurrent buys and withdrawals of one account the persisted
\* balance is never negative, and no buy is filled that the balance left by
\* the other committed debits does not cover: the balance the committed
\* transfers and fills add up to is never negative.
C2_NoOverdraft ==
    \A u \in Users : balance[u] >= 0 /\ ledger[u] >= 0

\* C3: with concurrent sells of one account and symbol the filled sells never
\* exceed the quantity held (filled buys minus filled sells is never
\* negative), and no persisted holding has a negative quantity.
C3_NoOversell ==
    /\ \A u \in Users, s \in Symbols : position[u][s] >= 0
    /\ \A h \in holdings : h.quantity >= 0

\* C4: with requests handled one at a time (deposits, withdrawals, place_order,
\* cancel_order), every account's cash balance is non-negative in every state.
C4_BalanceNonNegative ==
    \A u \in Users : balance[u] >= 0

\* C4 witness: a buy was rejected for insufficient funds after the account's
\* balance had been debited.
C4_Witness ==
    \E i \in DOMAIN orders :
       /\ orders[i].side = "buy"
       /\ orders[i].status = "rejected"
       /\ balance[orders[i].user_id] < INITIAL_BALANCE
       /\ balance[orders[i].user_id] < orders[i].quantity * price[orders[i].symbol]

\* C5: a place_order call that ends in rejection leaves every balance and
\* every holding (existence, quantity, average cost) as they were when the
\* call began.
C5_RejectedLeavesLedger ==
    \A p \in Procs :
       (Placed(p) /\ orders[res[p].oid].status = "rejected")
          => /\ balance = pre[p].balance
             /\ holdings = pre[p].holdings

\* C5 witness: a sell of more shares than the account's existing holding has
\* been rejected.
C5_Witness ==
    \E p \in Procs :
       /\ Placed(p)
       /\ orders[res[p].oid].status = "rejected"
       /\ orders[res[p].oid].side = "sell"
       /\ \E h \in holdings :
             /\ h.user_id = res[p].user_id
             /\ h.symbol = orders[res[p].oid].symbol
             /\ h.quantity < orders[res[p].oid].quantity

\* C6: once an order's persisted status is filled, rejected or cancelled, no
\* step of any request changes it, whatever the interleaving of place_order
\* and cancel_order.
C6_TerminalIsFinal ==
    [][\A i \in DOMAIN orders :
          orders[i].status \in Terminal => orders'[i].status = orders[i].status]_vars

\* The user's alerts already triggered when request p began.
TriggeredBefore(p) ==
    {a \in pre[p].alerts : a.user_id = res[p].user_id /\ a.is_triggered}

\* C7: with requests handled one at a time, an evaluation pass returns no
\* alert that was triggered before it; a pass over an account whose active
\* alerts are all triggered returns the empty list and changes no alert; and
\* no step changes a triggered alert (its triggered_at is never overwritten).
C7_TriggeredOnce ==
    /\ [](\A p \in Procs : Done(p, "check") =>
            /\ \A i \in 1..Len(res[p].ids) :
                  res[p].ids[i] \notin {a.id : a \in TriggeredBefore(p)}
            /\ (\A a \in pre[p].alerts :
                   a.user_id = res[p].user_id /\ a.is_active => a.is_triggered)
                  => res[p].ids = <<>> /\ alerts = pre[p].alerts)
    /\ [][\A a \in alerts : a.is_triggered =>
             \A b \in alerts' : b.id = a.id => b = a]_vars

\* C7 witness: a second pass has returned the empty list for an account that
\* has a triggered alert whose condition is still met.
C7_Witness ==
    \E p \in Procs :
       /\ Done(p, "check")
       /\ res[p].code = 200
       /\ res[p].ids = <<>>
       /\ \E a \in TriggeredBefore(p) :
             /\ a \in alerts
             /\ a.is_active
             /\ a.triggered_at # 0
             /\ \/ a.condition = "above" /\ price[a.symbol] >= a.target_price
                \/ a.condition = "below" /\ price[a.symbol] <= a.target_price

\* The trigger rule of the specification.
Met(a) ==
    \/ a.condition = "above" /\ price[a.symbol] >= a.target_price
    \/ a.condition = "below" /\ price[a.symbol] <= a.target_price

\* C8: with requests handled one at a time, a pass triggers an active,
\* untriggered alert of the calling account exactly when its condition is met
\* at the current price, equality included; an alert whose condition is not
\* met stays untriggered.
C8_TriggersIffMet ==
    \A p \in Procs :
       Done(p, "check") =>
          \A a \in pre[p].alerts :
             (a.user_id = res[p].user_id /\ a.is_active /\ ~a.is_triggered)
                => /\ (\E i \in 1..Len(res[p].ids) : res[p].ids[i] = a.id) <=> Met(a)
                   /\ \E b \in alerts : b.id = a.id /\ (b.is_triggered <=> Met(a))

\* C8 witness: one pass has triggered an alert whose target equals the price
\* and left untriggered an alert whose condition is not met.
C8_Witness ==
    \E p \in Procs :
       /\ Done(p, "check")
       /\ \E a, b \in alerts :
             /\ a.user_id = res[p].user_id /\ b.user_id = res[p].user_id
             /\ a.is_triggered /\ a.target_price = price[a.symbol]
             /\ a \notin pre[p].alerts
             /\ ~b.is_triggered /\ b.is_active /\ ~Met(b)

\* The holdings of the requesting user in the order's symbol, before and after.
HeldBefore(p) ==
    {h \in pre[p].holdings : h.user_id = res[p].user_id
                             /\ h.symbol = orders[res[p].oid].symbol}
HeldAfter(p) ==
    {h \in holdings : h.user_id = res[p].user_id
                      /\ h.symbol = orders[res[p].oid].symbol}

FilledBuy(p) ==
    /\ Placed(p)
    /\ orders[res[p].oid].status = "filled"
    /\ orders[res[p].oid].side = "buy"

\* C9: with requests handled one at a time, a filled buy of a symbol the
\* account holds adds the fill quantity to the holding and sets its average
\* cost to (old_qty * old_avg + fill_qty * fill_price) / (old_qty + fill_qty);
\* a first buy creates the holding with the fill quantity at the fill price.
C9_WeightedAverage ==
    \A p \in Procs :
       FilledBuy(p) =>
          LET o == orders[res[p].oid] IN
          /\ Cardinality(HeldAfter(p)) = 1
          /\ \A n \in HeldAfter(p) :
                IF HeldBefore(p) = {}
                THEN n.quantity = o.filled_quantity /\ n.avg = <<o.filled_price, 1>>
                ELSE \A h \in HeldBefore(p) :
                        /\ n.id = h.id
                        /\ n.quantity = h.quantity + o.filled_quantity
                        /\ n.avg[1] * h.avg[2] * (h.quantity + o.filled_quantity)
                             = n.avg[2] * (h.quantity * h.avg[1]
                                           + o.filled_quantity * o.filled_price * h.avg[2])

\* C9 witness: a buy has been filled into an existing holding at a price that
\* differs from the holding's average cost.
C9_Witness ==
    \E p \in Procs :
       /\ FilledBuy(p)
       /\ \E h \in HeldBefore(p) :
             h.avg # <<orders[res[p].oid].filled_price, 1>>

\* C10: with requests handled one at a time, a filled market buy of quantity q
\* at the current price p lowers the account's balance by exactly p * q and
\* changes no other balance and no holding of another account or symbol; with
\* balance 10000.00, AAPL at 178.50 and 10 shares the balance becomes 8215.00
\* and the holding 10 shares at 178.50.
C10_MarketBuyDebit ==
    \A p \in Procs :
       (FilledBuy(p) /\ orders[res[p].oid].order_type = "market") =>
          LET o == orders[res[p].oid]
              u == res[p].user_id
          IN /\ o.filled_price = price[o.symbol]
             /\ balance[u] = pre[p].balance[u] - price[o.symbol] * o.quantity
             /\ \A v \in Users \ {u} : balance[v] = pre[p].balance[v]
             /\ holdings \ HeldAfter(p) = pre[p].holdings \ HeldBefore(p)
             /\ (/\ pre[p].balance[u] = 1000000
                 /\ o.symbol = "AAPL" /\ price["AAPL"] = 17850 /\ o.quantity = 10
                 /\ HeldBefore(p) = {})
                   => /\ balance[u] = 821500
                      /\ \E h \in holdings :
                            /\ h.user_id = u /\ h.symbol = "AAPL"
                            /\ h.quantity = 10 /\ h.avg = <<17850, 1>>

\* C10 witness: the example, a market buy of 10 AAPL at 178.50 from a balance
\* of 10000.00 has been filled.
C10_Witness ==
    \E p \in Procs :
       /\ FilledBuy(p)
       /\ orders[res[p].oid].order_type = "market"
       /\ orders[res[p].oid].symbol = "AAPL"
       /\ orders[res[p].oid].quantity = 10
       /\ orders[res[p].oid].filled_price = 17850
       /\ pre[p].balance[res[p].user_id] = 1000000
       /\ HeldBefore(p) = {}
       /\ balance[res[p].user_id] = 821500

\* C11: in every reachable state, with requests of one account interleaved,
\* every order's filled_quantity is at most its quantity.
C11_FilledAtMostQuantity ==
    \A i \in DOMAIN orders : orders[i].filled_quantity <= orders[i].quantity

\* C11 witness: two orders placed by concurrent requests have both been
\* filled, each with its whole quantity.
C11_Witness ==
    \E i, j \in DOMAIN orders :
       /\ i < j
       /\ Placed(1) /\ Placed(2)
       /\ {res[1].oid, res[2].oid} = {i, j}
       /\ orders[i].status = "filled" /\ orders[i].filled_quantity = orders[i].quantity
       /\ orders[j].status = "filled" /\ orders[j].filled_quantity = orders[j].quantity
       /\ orders[i].quantity > 0 /\ orders[j].quantity > 0

\* C12: every filled limit buy has filled_price <= its limit_price and every
\* filled limit sell has filled_price >= its limit_price; every filled market
\* order has filled_price equal to the current price that place_order read,
\* whatever price ticks and requests of the account interleave with it.
C12_FillPriceWithinLimit ==
    /\ \A i \in DOMAIN orders :
          (orders[i].status = "filled" /\ orders[i].order_type = "limit") =>
             /\ orders[i].side = "buy"
                   => orders[i].filled_price <= orders[i].limit_price
             /\ orders[i].side = "sell"
                   => orders[i].filled_price >= orders[i].limit_price
    /\ \A p \in Procs :
          (/\ Placed(p)
           /\ orders[res[p].oid].status = "filled"
           /\ orders[res[p].oid].order_type = "market")
             => orders[res[p].oid].filled_price = pre[p].price

\* C12 witness: a limit buy has been filled below its limit, at the price
\* place_order read, and the instrument's price has ticked since.
C12_Witness ==
    \E p \in Procs :
       /\ Placed(p)
       /\ orders[res[p].oid].status = "filled"
       /\ orders[res[p].oid].order_type = "limit"
       /\ orders[res[p].oid].side = "buy"
       /\ orders[res[p].oid].filled_price < orders[res[p].oid].limit_price
       /\ orders[res[p].oid].filled_price = pre[p].price
       /\ price[orders[res[p].oid].symbol] # pre[p].price

\* A finished place_order request stored a limit order whose limit was not
\* reachable at the price it read.
UnreachableLimit(p) ==
    /\ Placed(p)
    /\ orders[res[p].oid].order_type = "limit"
    /\ \/ /\ orders[res[p].oid].side = "buy"
          /\ orders[res[p].oid].limit_price < pre[p].price
       \/ /\ orders[res[p].oid].side = "sell"
          /\ orders[res[p].oid].limit_price > pre[p].price

\* C13: with requests handled one at a time, a limit order whose limit is not
\* reachable at placement (buy below, sell above the current price) is stored
\* and returned with status pending and filled_quantity 0, whatever the
\* account's funds and shares, and every balance and holding is unchanged.
C13_UnreachableLimitPending ==
    \A p \in Procs :
       UnreachableLimit(p) =>
          /\ res[p].code = 201
          /\ res[p].oid = Len(pre[p].orders) + 1
          /\ Len(orders) = Len(pre[p].orders) + 1
          /\ orders[res[p].oid].status = "pending"
          /\ orders[res[p].oid].filled_quantity = 0
          /\ orders[res[p].oid].filled_price = 0
          /\ balance = pre[p].balance
          /\ holdings = pre[p].holdings

\* C13 witness: a limit sell above the current price has been left pending
\* for an account that holds no share of the symbol.
C13_Witness ==
    \E p \in Procs :
       /\ UnreachableLimit(p)
       /\ orders[res[p].oid].side = "sell"
       /\ orders[res[p].oid].status = "pending"
       /\ \A h \in holdings :
             ~(h.user_id = res[p].user_id /\ h.symbol = orders[res[p].oid].symbol)

\* A finished place_order request stored an order that was due for
\* execution (a market order, or a limit order reachable at the price read)
\* which the account's balance or holding at the start of the call did not
\* cover.
Uncovered(p) ==
    /\ Placed(p)
    /\ ~UnreachableLimit(p)
    /\ LET o == orders[res[p].oid] IN
       \/ /\ o.side = "buy"
          /\ pre[p].balance[o.user_id] < pre[p].price * o.quantity
       \/ /\ o.side = "sell"
          /\ \A h \in pre[p].holdings :
                (h.user_id = o.user_id /\ h.symbol = o.symbol)
                   => h.quantity < o.quantity

\* C14: with requests handled one at a time, a place_order call whose order
\* the account's funds or shares do not cover returns an error, and the order
\* record exists afterwards with persisted status rejected; an order is
\* rejected with that error in no other case.
C14_RejectedIsPersisted ==
    \A p \in Procs :
       Done(p, "place") =>
          /\ (res[p].code = 400 /\ res[p].oid # 0) =>
                /\ res[p].oid = Len(pre[p].orders) + 1
                /\ res[p].oid \in DOMAIN orders
                /\ orders[res[p].oid].status = "rejected"
                /\ Uncovered(p)
          /\ Uncovered(p) =>
                /\ res[p].code = 400
                /\ orders[res[p].oid].status = "rejected"
                /\ Len(orders) = Len(pre[p].orders) + 1

\* C14 witness: a market buy that costs more than the account's balance has
\* returned an error and its order is stored as rejected.
C14_Witness ==
    \E p \in Procs :
       /\ Uncovered(p)
       /\ res[p].code = 400
       /\ orders[res[p].oid].order_type = "market"
       /\ orders[res[p].oid].side = "buy"
       /\ orders[res[p].oid].status = "rejected"
       /\ orders[res[p].oid].filled_quantity = 0

\* C15: with requests handled one at a time, place_order and create_alert
\* return not-found exactly when the symbol has no instrument, and then no
\* order or alert record is created and every balance and holding is
\* unchanged.
C15_UnknownSymbolNotFound ==
    \A p \in Procs :
       (Done(p, "place") \/ Done(p, "create")) =>
          /\ res[p].code = 404 <=> pre[p].symbol \notin Symbols
          /\ pre[p].symbol \notin Symbols =>
                /\ res[p].oid = 0
                /\ orders = pre[p].orders
                /\ alerts = pre[p].alerts
                /\ balance = pre[p].balance
                /\ holdings = pre[p].holdings

\* C15 witness: place_order for a symbol without an instrument has returned
\* not-found to an account that has an alert and a holding.
C15_Witness ==
    \E p \in Procs :
       /\ Done(p, "place")
       /\ pre[p].symbol = "ZZZZ"
       /\ res[p].code = 404
       /\ orders = pre[p].orders
       /\ \E a \in alerts : a.user_id = res[p].user_id
       /\ \E h \in holdings : h.user_id = res[p].user_id

\* The order a finished cancel_order request named, as it was when the
\* request began: it existed and belonged to the calling account.
CancelFound(p) ==
    /\ Done(p, "cancel")
    /\ res[p].oid \in DOMAIN pre[p].orders
    /\ pre[p].orders[res[p].oid].user_id = res[p].user_id

\* C16: with requests handled one at a time, cancel_order on an order of the
\* calling account whose status is filled, rejected or cancelled returns an
\* invalid-state error, and cancel_order on an order id that does not exist
\* or belongs to another account returns not-found; in both cases every
\* order, balance and holding is unchanged.
C16_CancelRefused ==
    \A p \in Procs :
       Done(p, "cancel") =>
          /\ ~CancelFound(p) =>
                /\ res[p].code = 404
                /\ orders = pre[p].orders
                /\ balance = pre[p].balance
                /\ holdings = pre[p].holdings
          /\ (CancelFound(p) /\ pre[p].orders[res[p].oid].status # "pending") =>
                /\ res[p].code = 400
                /\ orders = pre[p].orders
                /\ balance = pre[p].balance
                /\ holdings = pre[p].holdings

\* C16 witness: a second cancel_order on an order that was already cancelled
\* has returned the invalid-state error.
C16_Witness ==
    \E p \in Procs :
       /\ CancelFound(p)
       /\ pre[p].orders[res[p].oid].status = "cancelled"
       /\ res[p].code = 400
       /\ orders[res[p].oid].status = "cancelled"

\* C17: with requests handled one at a time, cancel_order on a pending order
\* of the calling account returns it with status cancelled and changes
\* nothing else: the order's other fields (filled_quantity 0 among them),
\* every other order, every balance and every holding are unchanged.
C17_CancelPending ==
    \A p \in Procs :
       (CancelFound(p) /\ pre[p].orders[res[p].oid].status = "pending") =>
          /\ res[p].code = 200
          /\ orders = [pre[p].orders EXCEPT ![res[p].oid].status = "cancelled"]
          /\ orders[res[p].oid].filled_quantity = 0
          /\ balance = pre[p].balance
          /\ holdings = pre[p].holdings

\* C17 witness: a pending limit buy of an account that has a holding has
\* been cancelled.
C17_Witness ==
    \E p \in Procs :
       /\ CancelFound(p)
       /\ pre[p].orders[res[p].oid].status = "pending"
       /\ pre[p].orders[res[p].oid].side = "buy"
       /\ orders[res[p].oid].status = "cancelled"
       /\ res[p].code = 200
       /\ \E h \in holdings : h.user_id = res[p].user_id

\* The step is the commit of an evaluation pass.
PassCommits ==
    \E p \in Procs : pc[p] = "scan" /\ pc'[p] = "done" /\ res'[p].op = "check"

\* C18: whatever create_alert, check_and_trigger_alerts, get and delete
\* requests of one account and price ticks interleave, no step turns the
\* is_triggered of an existing alert from true to false, only the commit of
\* an evaluation pass changes is_triggered or triggered_at of an existing
\* alert, and no step changes its target price, condition or symbol.
C18_TriggeredOneWay ==
    [][\A a \in alerts : \A b \in alerts' :
          b.id = a.id =>
             /\ a.is_triggered => b.is_triggered
             /\ (b.is_triggered # a.is_triggered \/ b.triggered_at # a.triggered_at)
                   => PassCommits
             /\ b.target_price = a.target_price
             /\ b.condition = a.condition
             /\ b.symbol = a.symbol
             /\ b.user_id = a.user_id]_vars

\* C18 witness: a triggered alert has been read by get_alert after a price
\* tick took the price away from its target, and it is still triggered.
C18_Witness ==
    \E p \in Procs :
       /\ Done(p, "get")
       /\ res[p].code = 200
       /\ \E a \in alerts :
             /\ a.id = res[p].oid
             /\ a.is_triggered
             /\ a.triggered_at # 0
             /\ ~Met(a)

\* The ids of the alerts whose row differs between the two states of a step.
Rewritten == {a.id : a \in {x \in alerts : \E b \in alerts' : b.id = x.id /\ b # x}}

\* C19: with requests of one account interleaved, an evaluation pass writes
\* its triggered alerts to the database in one step at the end of its scan:
\* the steps of the scan leave every alert row as it is, the commit step
\* marks every alert the pass returns and rewrites no other row, and a pass
\* that returns nothing, or whose commit fails, changes no row.
C19_OneCommitPerPass ==
    [][/\ Rewritten # {} => PassCommits
       /\ \A p \in Procs :
             (pc[p] = "scan" /\ pc'[p] = "done") =>
                /\ Rewritten \subseteq {res'[p].ids[i] : i \in 1..Len(res'[p].ids)}
                /\ \A i \in 1..Len(res'[p].ids) :
                      \E b \in alerts' : /\ b.id = res'[p].ids[i]
                                         /\ b.is_triggered
                                         /\ b.triggered_at # 0
                /\ (res'[p].ids = <<>> \/ res'[p].code # 200) => alerts' = alerts]_vars

\* C19 witness: a pass has returned two alerts, marked at two different
\* times of its scan, both persisted as triggered, while a request of
\* another session is in flight.
C19_Witness ==
    \E p \in Procs :
       /\ Done(p, "check")
       /\ Len(res[p].ids) = 2
       /\ \E a, b \in alerts :
             /\ a.id = res[p].ids[1] /\ b.id = res[p].ids[2]
             /\ a.is_triggered /\ b.is_triggered
             /\ a.triggered_at # 0 /\ b.triggered_at # 0
             /\ a.triggered_at # b.triggered_at
             /\ a \notin pre[p].alerts /\ b \notin pre[p].alerts
       /\ \E q \in Procs \ {p} : pc[q] # "idle"

\* C20: with requests of one account interleaved, in every reachable state
\* every alert has is_triggered true exactly when its triggered_at is set,
\* and is_active true; an alert enters the table with is_triggered false,
\* is_active true and no triggered_at, and each step that changes one of
\* is_triggered and triggered_at leaves both set.
C20_TriggeredIffTimestamp ==
    /\ [](\A a \in alerts :
             /\ a.is_triggered <=> a.triggered_at # 0
             /\ a.is_active)
    /\ [][/\ \A b \in alerts' :
                (\A a \in alerts : a.id # b.id) =>
                   ~b.is_triggered /\ b.is_active /\ b.triggered_at = 0
          /\ \A a \in alerts : \A b \in alerts' :
                (b.id = a.id /\ b # a) =>
                   b.is_triggered /\ b.triggered_at # 0 /\ b.is_active]_vars

\* C20 witness: after a pass, one alert of the account is triggered with its
\* triggered_at set and another is untriggered with none; both are active.
C20_Witness ==
    \E p \in Procs :
       /\ Done(p, "check")
       /\ Len(res[p].ids) = 1
       /\ \E a, b \in alerts :
             /\ a.user_id = res[p].user_id /\ b.user_id = res[p].user_id
             /\ a.id = res[p].ids[1]
             /\ a.is_triggered /\ a.triggered_at # 0 /\ a.is_active
             /\ ~b.is_triggered /\ b.triggered_at = 0 /\ b.is_active

\* A finished place_order request filled a sell.
FilledSell(p) ==
    /\ Placed(p)
    /\ orders[res[p].oid].status = "filled"
    /\ orders[res[p].oid].side = "sell"

\* C21: with requests handled one at a time, every existing holding has a
\* quantity above zero, and after a filled sell of the whole quantity held
\* no holding of that account and symbol exists.
C21_NoEmptyHolding ==
    /\ \A h \in holdings : h.quantity > 0
    /\ \A p \in Procs :
          (FilledSell(p) /\ \E h \in HeldBefore(p) :
                               h.quantity = orders[res[p].oid].filled_quantity)
             => HeldAfter(p) = {}

\* C21 witness: a sell of the account's whole holding has been filled, and
\* the holding is gone.
C21_Witness ==
    \E p \in Procs :
       /\ FilledSell(p)
       /\ \E h \in HeldBefore(p) : h.quantity = orders[res[p].oid].quantity
       /\ HeldAfter(p) = {}
       /\ holdings = pre[p].holdings \ HeldBefore(p)

\* The alert a finished get_alert or delete_alert request named, as it was
\* when the request began, if the calling account owned it.
NamedOwn(p) ==
    {a \in pre[p].alerts : a.id = res[p].oid /\ a.user_id = res[p].user_id}

\* C22: with requests handled one at a time, get_alert and delete_alert
\* return not-found when the id names an alert of another account, as they
\* do when no alert has the id, and then every alert is unchanged; they
\* succeed only on an alert of the calling account, and delete_alert removes
\* that alert alone.
C22_OwnAlertsOnly ==
    \A p \in Procs :
       (Done(p, "get") \/ Done(p, "delete")) =>
          /\ NamedOwn(p) = {} => res[p].code = 404 /\ alerts = pre[p].alerts
          /\ NamedOwn(p) # {} =>
                /\ Done(p, "get") => res[p].code = 200 /\ alerts = pre[p].alerts
                /\ Done(p, "delete") =>
                      res[p].code = 204 /\ alerts = pre[p].alerts \ NamedOwn(p)

\* C22 witness: delete_alert with the id of another account's alert has
\* returned not-found, and the alert is still there.
C22_Witness ==
    \E p \in Procs :
       /\ Done(p, "delete")
       /\ res[p].code = 404
       /\ \E a \in alerts :
             /\ a.id = res[p].oid
             /\ a.user_id # res[p].user_id
             /\ a \in pre[p].alerts

\* C23: with requests handled one at a time, when place_order for a market
\* order finishes after the order was created, by returning the order or by
\* raising an error, the persisted order is filled or rejected, never
\* pending: filled when the order is returned, rejected when the error is.
C23_MarketOrderSettled ==
    \A p \in Procs :
       (Placed(p) /\ orders[res[p].oid].order_type = "market") =>
          /\ orders[res[p].oid].status \in {"filled", "rejected"}
          /\ res[p].code = 201 <=> orders[res[p].oid].status = "filled"
          /\ res[p].code = 400 <=> orders[res[p].oid].status = "rejected"

\* C23 witness: place_order for a market sell has raised its error after
\* the order was created, and the order is stored as rejected.
C23_Witness ==
    \E p \in Procs :
       /\ Placed(p)
       /\ orders[res[p].oid].order_type = "market"
       /\ orders[res[p].oid].side = "sell"
       /\ res[p].code = 400
       /\ res[p].oid = Len(pre[p].orders) + 1
       /\ orders[res[p].oid].status = "rejected"

\* C24: in every reachable state there is at most one holding record per
\* account and symbol, also when two first buys of one symbol by one account
\* are processed concurrently.
C24_OneHoldingPerSymbol ==
    \A u \in Users, s \in Symbols : Cardinality(HoldingsOf(u, s)) <= 1

\* The quantities of a set of holding rows, added up.
RECURSIVE SumQuantity(_)
SumQuantity(rows) ==
    IF rows = {} THEN 0
    ELSE LET r == CHOOSE x \in rows : TRUE
         IN r.quantity + SumQuantity(rows \ {r})

\* C25: once every concurrently processed order, deposit and withdrawal of
\* an account has completed, its persisted balance is the starting balance
\* plus deposits minus withdrawals minus the cost of every filled buy plus
\* the proceeds of every filled sell, and the quantity it holds of each
\* symbol is its filled buys minus its filled sells.
C25_NoLostUpdate ==
    (\A p \in Procs : pc[p] \in {"idle", "done"}) =>
       \A u \in Users :
          /\ balance[u] = ledger[u]
          /\ \A s \in Symbols : SumQuantity(HoldingsOf(u, s)) = position[u][s]

\* The orders a place_order request is still working on.
InFlight == {ses[p].oid : p \in {q \in Procs : ses[q].op = "place"}}

\* C26: with requests handled one at a time, a pending order whose
\* place_order has finished is changed by no later step, price ticks that
\* make its limit reachable included, except that cancel_order on it turns
\* its status from pending to cancelled.
C26_PendingOnlyCancelled ==
    [][\A i \in DOMAIN orders :
          (orders[i].status = "pending" /\ i \notin InFlight) =>
             \/ orders'[i] = orders[i]
             \/ /\ orders'[i] = [orders[i] EXCEPT !.status = "cancelled"]
                /\ \E p \in Procs : /\ pc[p] = "cancel" /\ pc'[p] = "done"
                                     /\ res'[p].op = "cancel"
                                     /\ res'[p].oid = i
                                     /\ res'[p].code = 200]_vars

\* C26 witness: a limit sell that place_order left pending is still pending
\* and unfilled after a price tick has made its limit reachable.
C26_Witness ==
    /\ AllIdle
    /\ \E i \in DOMAIN orders :
          /\ orders[i].status = "pending"
          /\ orders[i].order_type = "limit"
          /\ orders[i].side = "sell"
          /\ orders[i].limit_price <= price[orders[i].symbol]
          /\ orders[i].filled_quantity = 0

\* C27: with requests handled one at a time, a filled sell of quantity q at
\* price p raises the account's balance by exactly p * q and changes no
\* other balance, lowers the holding's quantity by exactly q, leaves the
\* holding's average cost as it was while the holding exists, and changes no
\* holding of another symbol or account.
C27_SellCredit ==
    \A p \in Procs :
       FilledSell(p) =>
          LET o == orders[res[p].oid]
              u == res[p].user_id
          IN /\ o.filled_quantity = o.quantity
             /\ balance[u] = pre[p].balance[u] + o.filled_price * o.quantity
             /\ \A v \in Users \ {u} : balance[v] = pre[p].balance[v]
             /\ Cardinality(HeldBefore(p)) = 1
             /\ \A h \in HeldBefore(p) :
                   IF h.quantity = o.quantity
                   THEN HeldAfter(p) = {}
                   ELSE HeldAfter(p) =
                           {[h EXCEPT !.quantity = h.quantity - o.quantity]}
             /\ holdings \ HeldAfter(p) = pre[p].holdings \ HeldBefore(p)

\* C27 witness: a sell of part of a holding has been filled at a price that
\* differs from the holding's average cost, and the holding still exists.
C27_Witness ==
    \E p \in Procs :
       /\ FilledSell(p)
       /\ \E h \in HeldBefore(p) :
             /\ h.quantity > orders[res[p].oid].quantity
             /\ h.avg # <<orders[res[p].oid].filled_price, 1>>
             /\ \E n \in HeldAfter(p) : n.avg = h.avg /\ n.quantity < h.quantity

\* The ids of the calling account's alerts whose is_triggered was false when
\* request p began and is true now.
NewlyTriggered(p) ==
    {a.id : a \in {x \in pre[p].alerts :
                     /\ x.user_id = res[p].user_id
                     /\ ~x.is_triggered
                     /\ \E b \in alerts : b.id = x.id /\ b.is_triggered}}

\* C28: with requests handled one at a time, the list an evaluation pass
\* returns holds exactly the calling account's alerts whose is_triggered
\* the pass turned from false to true, each once: no alert triggered before
\* the pass and no alert whose condition is not met is in it.
C28_ReturnsNewlyTriggered ==
    \A p \in Procs :
       Done(p, "check") =>
          LET ids == {res[p].ids[i] : i \in 1..Len(res[p].ids)} IN
          /\ ids = NewlyTriggered(p)
          /\ Cardinality(ids) = Len(res[p].ids)
          /\ ids \cap {a.id : a \in TriggeredBefore(p)} = {}
          /\ \A a \in alerts : a.id \in ids => a.user_id = res[p].user_id /\ Met(a)

\* C28 witness: a pass has returned the one alert it triggered and left out
\* an alert of the account that was triggered before and is still met.
C28_Witness ==
    \E p \in Procs :
       /\ Done(p, "check")
       /\ Len(res[p].ids) = 1
       /\ res[p].ids[1] \in NewlyTriggered(p)
       /\ \E a \in TriggeredBefore(p) :
             a \in alerts /\ a.is_active /\ Met(a) /\ a.id # res[p].ids[1]

\* The step belongs to an evaluation pass.
PassStep ==
    \E p \in Procs :
       \/ pc[p] = "scan"
       \/ pc'[p] = "scan"
       \/ pc[p] = "idle" /\ pc'[p] = "done" /\ res'[p].op = "check"

\* C29: with requests handled one at a time, an evaluation pass for an
\* account changes nothing but is_triggered and triggered_at of that
\* account's own active, untriggered alerts: it adds and removes no alert,
\* the alerts of other accounts and the account's triggered or inactive
\* alerts are unchanged, and so are all balances, holdings and orders; no
\* step of a pass changes an instrument's price.
C29_PassFrame ==
    /\ [](\A p \in Procs :
             Done(p, "check") =>
                /\ balance = pre[p].balance
                /\ holdings = pre[p].holdings
                /\ orders = pre[p].orders
                /\ {b.id : b \in alerts} = {a.id : a \in pre[p].alerts}
                /\ \A a \in pre[p].alerts :
                      IF a.user_id = res[p].user_id /\ a.is_active /\ ~a.is_triggered
                      THEN \E b \in alerts :
                              \/ b = a
                              \/ b = [a EXCEPT !.is_triggered = TRUE,
                                               !.triggered_at = b.triggered_at]
                      ELSE a \in alerts)
    /\ [][PassStep => price' = price]_vars

\* C29 witness: a pass has triggered an alert of the calling account and
\* left alone an alert of another account whose condition is met too.
C29_Witness ==
    \E p \in Procs :
       /\ Done(p, "check")
       /\ Len(res[p].ids) = 1
       /\ \E a, b \in alerts :
             /\ a.id = res[p].ids[1] /\ a.user_id = res[p].user_id
             /\ a.is_triggered
             /\ b.user_id # res[p].user_id
             /\ ~b.is_triggered /\ b.is_active /\ Met(b)
             /\ b \in pre[p].alerts
       /\ holdings # {} /\ orders # <<>>

\* A finished order request whose body failed validation: a quantity that is
\* not positive, or the order type limit without a limit price.
FailedValidation(p) ==
    /\ Done(p, "validate") \/ Done(p, "place")
    /\ \/ pre[p].quantity <= 0
       \/ pre[p].order_type = "limit" /\ pre[p].limit_price = 0

\* The request of slot p created no order record and changed no balance and
\* no holding.
NothingPlaced(p) ==
    /\ res[p].oid = 0
    /\ orders = pre[p].orders
    /\ balance = pre[p].balance
    /\ holdings = pre[p].holdings

====
